---- MODULE Spec2Model ----
(***************************************************************************)
(* Model of the iMQ broker (github.com/goiiot/imq) and of the persistence  *)
(* layer of its vendored libmqtt:                                          *)
(*   - memPersist and filePersist (vendor/github.com/goiiot/libmqtt/       *)
(*     persist.go): Store, Load, Range, Delete, Destroy, the buffered      *)
(*     flush worker;                                                       *)
(*   - the connection handshake (handleWS, handleConn, newConn, tcpWorker) *)
(*     the loops of a connection and the connection registry;              *)
(*   - the supervisor (mqtt/base.go): Init, the four listeners, destroy.   *)
(***************************************************************************)
EXTENDS Integers, Sequences, FiniteSets, TLC

(***************************************************************************)
(* Bounds of the model.                                                    *)
(***************************************************************************)
MaxKey == 1
MaxPkt == 2
MaxMaxCount == 2
MaxWorkers == 2
CounterCap == 2
MaxConn == 2
MaxClient == 2
MaxKeepalive == 1
MaxIdle == 4
MaxPid == 1
MaxCallers == 2

(***************************************************************************)
(* uint32 arithmetic.  m.n and m.inMemSize are uint32; a value is kept as  *)
(* two 16-bit halves so that wrap-around at 2^32 is exact.                 *)
(***************************************************************************)
Half == 65536

U32(x) == [hi |-> (x \div Half) % Half, lo |-> x % Half]

Zero32 == U32(0)

One32 == U32(1)

Add32(a, b) ==
  LET lo == a.lo + b.lo
  IN  [hi |-> (a.hi + b.hi + (lo \div Half)) % Half, lo |-> lo % Half]

Sub32(a, b) ==
  LET lo == a.lo - b.lo
      borrow == IF lo < 0 THEN 1 ELSE 0
  IN  [hi |-> (a.hi - b.hi - borrow) % Half, lo |-> lo % Half]

GE32(a, b) == a.hi > b.hi \/ (a.hi = b.hi /\ a.lo >= b.lo)

GT32(a, b) == GE32(a, b) /\ a # b

(***************************************************************************)
(* Keys, file names and packets.  A name is a sequence of components; the  *)
(* component 0 stands for the literal ".mqtt" (fileSuffix), so that        *)
(* key + fileSuffix is sequence concatenation and one key may itself end   *)
(* in the suffix.                                                          *)
(***************************************************************************)
fileSuffix == <<0>>

Keys == {<<i>> : i \in 1..MaxKey} \cup {<<1>> \o fileSuffix}

getFilename(key) == key \o fileSuffix

HasSuffix(name, suffix) ==
  /\ Len(name) >= Len(suffix)
  /\ SubSeq(name, Len(name) - Len(suffix) + 1, Len(name)) = suffix

TrimSuffix(name, suffix) ==
  IF HasSuffix(name, suffix) THEN SubSeq(name, 1, Len(name) - Len(suffix)) ELSE name

Packets == {[ctrl |-> "PUBLISH", pid |-> i] : i \in 1..MaxPkt}

NoPacket == [ctrl |-> "nil", pid |-> 0]

\* Packet.Bytes(): fixed header (control type) followed by the packet id.
Bytes(p) == <<p.ctrl, p.pid>>

\* Decode(V311, content): one typed packet or a decode error.
Decode(content) ==
  IF Len(content) = 2 /\ content[1] = "PUBLISH"
  THEN [err |-> FALSE, pkt |-> [ctrl |-> content[1], pid |-> content[2]]]
  ELSE [err |-> TRUE, pkt |-> NoPacket]

ErrPacketDroppedByStrategy == "ErrPacketDroppedByStrategy"

\* The PersistStrategy values the model draws from; Interval 0 persists per
\* call, Interval 1 stands for any positive flush interval.
Strategies ==
  [Interval : {0, 1}, MaxCount : 0..MaxMaxCount,
   DropOnExceed : BOOLEAN, DuplicateReplace : BOOLEAN]

VARIABLES
  backend,      \* which PersistMethod is in use: "mem" or "file"
  strategy,     \* its PersistStrategy
  data,         \* memPersist.data
  memN,         \* memPersist.n
  disk,         \* files of filePersist.dirPath: file name -> content
  inMemBuf,     \* filePersist.inMemBuf
  inMemSize,    \* filePersist.inMemSize
  fileN,        \* filePersist.n
  workers,      \* the goroutines running filePersist.worker
  faulty,       \* whether writes to dirPath can fail
  call,         \* the last call of the PersistMethod interface and its result
  admitted,     \* history: the keys for which a Store put a record and returned nil
  confVersion,  \* conf.version
  conns,        \* the accepted transport connections and their connImpl
  connections,  \* the connection registry (var connections = &sync.Map{})
  exitDone,     \* whether the exit context handed to Init is cancelled
  listeners,    \* the goroutines initTCPListen, initTCPSListen, initWSListen, initWSSListen
  services,     \* the package variables tcpService, tcpsService, wsService, wssService
  wg,           \* the counter of the wait group wg
  initPc,       \* Init: "waiting" in wg.Wait() or "returned"
  exitG,        \* the goroutine of Init that waits for exit: "waiting" or "done"
  callers       \* concurrent callers of memPersist.Store

pvars == <<backend, strategy, data, memN, disk, inMemBuf, inMemSize, fileN,
           workers, faulty, call, admitted>>

cvars == <<confVersion, conns, connections>>

svars == <<exitDone, listeners, services, wg, initPc, exitG>>

vars == <<pvars, cvars, svars, callers>>

Empty == [x \in {} |-> NoPacket]

Without(f, S) == [x \in (DOMAIN f) \ S |-> f[x]]

Put(f, k, v) == [x \in (DOMAIN f) \cup {k} |-> IF x = k THEN v ELSE f[x]]

Call(op, key, pkt, ret, found, visited, rets) ==
  [op |-> op, key |-> key, pkt |-> pkt, ret |-> ret, found |-> found,
   visited |-> visited, rets |-> rets]

NoCall == Call("none", <<>>, NoPacket, "nil", FALSE, <<>>, <<>>)

StoreCall(key, p, ret) == Call("Store", key, p, ret, FALSE, <<>>, <<>>)

\* All orders in which the elements of S can be enumerated once each.
Orders(S) ==
  {s \in [1..Cardinality(S) -> S] : \A i, j \in 1..Cardinality(S) : i # j => s[i] # s[j]}

\* A visitor of Range: it returns false at its stopAt-th invocation and true at
\* every other one (stopAt = 0: it always returns true).
Visitor(stopAt, i) == i # stopAt

\* A slot of the model for one accepted connection; NoConn: not yet accepted.
\*   kind     the listener that accepted it: "tcp" or "ws"
\*   open     whether the transport is open
\*   phase    "free", "handshaking", "established" (a connImpl exists) or
\*            "rejected" (the handler returned without one)
\*   clientId the client identifier of its connect packet
\*   decoded  the protocol version its connect packet was decoded with
\*   version  connImpl.version
\*   ctxDone  whether connImpl.ctx is cancelled
\*   recv, send  the goroutines handleConnRecv and handleConnSend:
\*            "none", "running" or "returned"
\*   keepalive  connPkt.Keepalive, in seconds
\*   pkt      the packet last decoded by handleConnRecv
\*   idle     history: the half seconds elapsed since the connection was
\*            established or last received a packet
NoInbound == [type |-> "none", qos |-> 0, pid |-> 0]

NoConn ==
  [kind |-> "none", open |-> FALSE, phase |-> "free", clientId |-> <<>>,
   decoded |-> "none", version |-> "none", ctxDone |-> FALSE,
   recv |-> "none", send |-> "none", keepalive |-> 0, pkt |-> NoInbound,
   idle |-> 0]

Listeners == {"tcp", "tcps", "ws", "wss"}

\* A listener goroutine: "off" (its port is 0, it was not started), "starting",
\* "listening" or "returned"; closed: whether its socket or server was closed.
Listener(state) == [state |-> state, closed |-> FALSE]

\* The supervisor with its four listeners serving.
Serving ==
  /\ exitDone = FALSE
  /\ listeners = [l \in Listeners |-> Listener("listening")]
  /\ services = [l \in Listeners |-> "nil"]
  /\ wg = Cardinality(Listeners) + 1
  /\ initPc = "waiting"
  /\ exitG = "waiting"

NoCallers == [t \in 1..MaxCallers |-> [pc |-> "idle", key |-> <<>>, pkt |-> NoPacket, loaded |-> FALSE]]

NoConnections == [k \in {} |-> 0]

(***************************************************************************)
(* memPersist                                                              *)
(***************************************************************************)
memDropped ==
  /\ strategy.MaxCount > 0
  /\ GE32(memN, U32(strategy.MaxCount))
  /\ strategy.DropOnExceed

\* memPersistStore without atomic.AddUint32(&m.n, 1).
memPersistStore_NoAdd(key, p) ==
  IF memDropped
  THEN /\ call' = StoreCall(key, p, ErrPacketDroppedByStrategy)
       /\ UNCHANGED <<data, memN, admitted>>
  ELSE /\ data' = IF key \notin DOMAIN data \/ strategy.DuplicateReplace
                  THEN Put(data, key, p) ELSE data
       /\ UNCHANGED memN
       /\ admitted' = admitted \cup {key}
       /\ call' = StoreCall(key, p, "nil")

memPersistStore(key, p) ==
  IF memDropped
  THEN /\ call' = StoreCall(key, p, ErrPacketDroppedByStrategy)
       /\ UNCHANGED <<data, memN, admitted>>
  ELSE /\ IF key \notin DOMAIN data
          THEN \* LoadOrStore stored the packet
               /\ data' = Put(data, key, p)
               /\ memN' = Add32(memN, One32)
          ELSE IF strategy.DuplicateReplace
          THEN /\ data' = Put(data, key, p)
               /\ UNCHANGED memN
          ELSE UNCHANGED <<data, memN>>
       /\ admitted' = admitted \cup {key}
       /\ call' = StoreCall(key, p, "nil")

memPersistLoad(key) ==
  IF key \in DOMAIN data
  THEN [pkt |-> data[key], found |-> TRUE]
  ELSE [pkt |-> NoPacket, found |-> FALSE]

\* memPersistRange with the callback's answer dropped: every key is visited.
memPersistRange_NoBreak(ord, stopAt) ==
  [visited |-> ord, rets |-> [i \in 1..Len(ord) |-> Visitor(stopAt, i)]]

\* sync.Map.Range: calls f for each key in some order, stops when f returns false.
memPersistRange(ord, stopAt) ==
  LET last == IF stopAt \in 1..Len(ord) THEN stopAt ELSE Len(ord)
  IN  [visited |-> SubSeq(ord, 1, last),
       rets |-> [i \in 1..last |-> Visitor(stopAt, i)]]

memPersistDelete(key) ==
  /\ data' = Without(data, {key})
  /\ call' = Call("Delete", key, NoPacket, "nil", FALSE, <<>>, <<>>)
  /\ UNCHANGED <<memN, admitted>>

memPersistDestroy ==
  /\ data' = Empty
  /\ call' = Call("Destroy", <<>>, NoPacket, "nil", FALSE, <<>>, <<>>)
  /\ UNCHANGED <<memN, admitted>>

fvars == <<disk, inMemBuf, inMemSize, fileN, workers>>

MemStore ==
  /\ backend = "mem"
  /\ memDropped \/ memN.lo < CounterCap
  /\ \E key \in Keys, p \in Packets : memPersistStore(key, p)
  /\ UNCHANGED <<cvars, svars, callers, backend, strategy, faulty, fvars>>

MemLoad ==
  /\ backend = "mem"
  /\ \E key \in Keys :
       call' = Call("Load", key, memPersistLoad(key).pkt, "nil",
                    memPersistLoad(key).found, <<>>, <<>>)
  /\ UNCHANGED <<cvars, svars, callers, backend, strategy, faulty, fvars, data, memN, admitted>>

MemRange ==
  /\ backend = "mem"
  /\ \E ord \in Orders(DOMAIN data), stopAt \in 0..Cardinality(Keys) :
       call' = Call("Range", <<>>, NoPacket, "nil", FALSE,
                    memPersistRange(ord, stopAt).visited,
                    memPersistRange(ord, stopAt).rets)
  /\ UNCHANGED <<cvars, svars, callers, backend, strategy, faulty, fvars, data, memN, admitted>>

MemDelete ==
  /\ backend = "mem"
  /\ \E key \in Keys : memPersistDelete(key)
  /\ UNCHANGED <<cvars, svars, callers, backend, strategy, faulty, fvars>>

MemDestroy ==
  /\ backend = "mem"
  /\ memPersistDestroy
  /\ UNCHANGED <<cvars, svars, callers, backend, strategy, faulty, fvars>>

(***************************************************************************)
(* filePersist                                                             *)
(***************************************************************************)
\* What the callback given to filepath.Walk answers for a directory
\* (err != nil || info.IsDir()).
walkFnOnDir == "SkipDir"

\* filepath.Walk(dirPath, fn): fn is first called for dirPath itself; when it
\* answers SkipDir for a directory, nothing inside the directory is walked.
Walk(d) == IF walkFnOnDir = "SkipDir" THEN {} ELSE DOMAIN d

\* NewFilePersist: p.n counts the files with the suffix that the walk reaches.
NewFilePersist(d) == U32(Cardinality({name \in Walk(d) : HasSuffix(name, fileSuffix)}))

getPacketFromFile(name) ==
  IF name \notin DOMAIN disk THEN [err |-> TRUE, pkt |-> NoPacket] ELSE Decode(disk[name])

exists(key) == getFilename(key) \in DOMAIN disk

WriteOutcomes == IF faulty THEN BOOLEAN ELSE {TRUE}

IdleWorker == [pc |-> "idle", must |-> {}, persistedKeys |-> {}]

Idle == {w \in 1..MaxWorkers : workers[w].pc = "idle"}

\* go m.worker(): the new goroutine starts in time.Sleep.
goWorker ==
  /\ Idle # {}
  /\ LET w == CHOOSE v \in Idle : \A u \in Idle : v <= u
     IN  workers' = [workers EXCEPT ![w] = [IdleWorker EXCEPT !.pc = "sleep"]]

\* filePersist.store; ok tells whether ioutil.WriteFile succeeds.
filePersist_store(key, p, ok) ==
  IF ok
  THEN /\ disk' = Put(disk, getFilename(key), Bytes(p))
       /\ fileN' = Add32(fileN, One32)
       /\ inMemSize' = Sub32(inMemSize, One32)
  ELSE UNCHANGED <<disk, fileN, inMemSize>>

fileDropped ==
  /\ strategy.MaxCount > 0
  /\ strategy.DropOnExceed
  /\ GE32(Add32(fileN, inMemSize), U32(strategy.MaxCount))

filePersistStore(key, p, ok) ==
  IF fileDropped
  THEN /\ call' = StoreCall(key, p, ErrPacketDroppedByStrategy)
       /\ UNCHANGED <<fvars, admitted>>
  ELSE IF ~exists(key) \/ strategy.DuplicateReplace
  THEN IF strategy.Interval > 0
       THEN /\ IF inMemSize = Zero32 THEN goWorker ELSE UNCHANGED workers
            /\ inMemBuf' = Put(inMemBuf, key, p)
            /\ inMemSize' = Add32(inMemSize, One32)
            /\ admitted' = admitted \cup {key}
            /\ call' = StoreCall(key, p, "nil")
            /\ UNCHANGED <<disk, fileN>>
       ELSE /\ filePersist_store(key, p, ok)
            /\ admitted' = IF ok THEN admitted \cup {key} ELSE admitted
            /\ call' = StoreCall(key, p, IF ok THEN "nil" ELSE "error")
            /\ UNCHANGED <<inMemBuf, workers>>
  ELSE /\ call' = StoreCall(key, p, "nil")
       /\ UNCHANGED <<fvars, admitted>>

\* filePersistLoad that looks into the staging map before the disk.
filePersistLoad_Staged(key) ==
  IF key \in DOMAIN inMemBuf THEN [pkt |-> inMemBuf[key], found |-> TRUE]
  ELSE LET r == getPacketFromFile(getFilename(key))
       IN  IF r.err THEN [pkt |-> NoPacket, found |-> FALSE] ELSE [pkt |-> r.pkt, found |-> TRUE]

filePersistLoad(key) ==
  LET r == getPacketFromFile(getFilename(key))
  IN  IF r.err THEN [pkt |-> NoPacket, found |-> FALSE] ELSE [pkt |-> r.pkt, found |-> TRUE]

\* The record files the walk of Range decodes, and the calls of the visitor:
\* its answer is not looked at.
RangeFiles == {name \in Walk(disk) : HasSuffix(name, fileSuffix) /\ ~Decode(disk[name]).err}

filePersistRange(ord, stopAt) ==
  [visited |-> [i \in 1..Len(ord) |-> TrimSuffix(ord[i], fileSuffix)],
   rets |-> [i \in 1..Len(ord) |-> Visitor(stopAt, i)]]

\* os.Remove(path.Join(m.dirPath, key))
filePersistDelete(key) ==
  IF key \in DOMAIN disk
  THEN /\ disk' = Without(disk, {key})
       /\ call' = Call("Delete", key, NoPacket, "nil", FALSE, <<>>, <<>>)
  ELSE /\ disk' = disk
       /\ call' = Call("Delete", key, NoPacket, "error", FALSE, <<>>, <<>>)

mvars == <<data, memN>>

FileStore ==
  /\ backend = "file"
  /\ \/ fileDropped
     \/ /\ fileN.lo < CounterCap
        /\ strategy.Interval > 0 => inMemSize.lo < CounterCap
  /\ \E key \in Keys, p \in Packets, ok \in WriteOutcomes : filePersistStore(key, p, ok)
  /\ UNCHANGED <<cvars, svars, callers, backend, strategy, faulty, mvars>>

FileLoad ==
  /\ backend = "file"
  /\ \E key \in Keys :
       call' = Call("Load", key, filePersistLoad(key).pkt, "nil",
                    filePersistLoad(key).found, <<>>, <<>>)
  /\ UNCHANGED <<cvars, svars, callers, backend, strategy, faulty, mvars, fvars, admitted>>

FileRange ==
  /\ backend = "file"
  /\ \E ord \in Orders(RangeFiles), stopAt \in 0..Cardinality(Keys) :
       call' = Call("Range", <<>>, NoPacket, "nil", FALSE,
                    filePersistRange(ord, stopAt).visited,
                    filePersistRange(ord, stopAt).rets)
  /\ UNCHANGED <<cvars, svars, callers, backend, strategy, faulty, mvars, fvars, admitted>>

FileDelete ==
  /\ backend = "file"
  /\ \E key \in Keys : filePersistDelete(key)
  /\ UNCHANGED <<cvars, svars, callers, backend, strategy, faulty, mvars, inMemBuf, inMemSize, fileN,
                 workers, admitted>>

(***************************************************************************)
(* filePersist.worker, one step at a time: the sleep, the Range over       *)
(* inMemBuf (one key per step), the deletion of the persisted keys and the *)
(* final test of inMemSize.                                                *)
(***************************************************************************)
WorkerWake(w) ==
  /\ workers[w].pc = "sleep"
  /\ workers' = [workers EXCEPT ![w] =
                   [pc |-> "range", must |-> DOMAIN inMemBuf, persistedKeys |-> {}]]
  /\ UNCHANGED <<cvars, svars, callers, backend, strategy, faulty, mvars, disk, inMemBuf, inMemSize,
                 fileN, call, admitted>>

\* One call of the Range callback; the error of m.store is not looked at.
WorkerPersist(w) ==
  /\ workers[w].pc = "range"
  /\ \E k \in (DOMAIN inMemBuf) \ workers[w].persistedKeys, ok \in WriteOutcomes :
       /\ filePersist_store(k, inMemBuf[k], ok)
       /\ workers' = [workers EXCEPT ![w].persistedKeys = @ \cup {k}]
  /\ UNCHANGED <<cvars, svars, callers, backend, strategy, faulty, mvars, inMemBuf, call, admitted>>

\* The Range ends once every key that was in the map when it began has been
\* visited or removed (a key stored meanwhile may be missed); the persisted
\* keys are then deleted from the map.
WorkerDelete(w) ==
  /\ workers[w].pc = "range"
  /\ (workers[w].must \cap DOMAIN inMemBuf) \subseteq workers[w].persistedKeys
  /\ inMemBuf' = Without(inMemBuf, workers[w].persistedKeys)
  /\ workers' = [workers EXCEPT ![w] = [IdleWorker EXCEPT !.pc = "check"]]
  /\ UNCHANGED <<cvars, svars, callers, backend, strategy, faulty, mvars, disk, inMemSize, fileN, call,
                 admitted>>

\* if atomic.LoadUint32(&m.inMemSize) > 0 { m.worker() }
WorkerCheck(w) ==
  /\ workers[w].pc = "check"
  /\ workers' = [workers EXCEPT ![w] =
                   IF GT32(inMemSize, Zero32)
                   THEN [IdleWorker EXCEPT !.pc = "sleep"]
                   ELSE IdleWorker]
  /\ UNCHANGED <<cvars, svars, callers, backend, strategy, faulty, mvars, disk, inMemBuf, inMemSize,
                 fileN, call, admitted>>

Worker == \E w \in 1..MaxWorkers :
  \/ WorkerWake(w)
  \/ WorkerPersist(w)
  \/ WorkerDelete(w)
  \/ WorkerCheck(w)

(***************************************************************************)
(* The persistence store: one backend, chosen at construction.             *)
(***************************************************************************)
\* The directory may hold a record left by an earlier run.
InitDisks == {Empty, Put(Empty, getFilename(<<1>>), Bytes([ctrl |-> "PUBLISH", pid |-> 1]))}

Init ==
  /\ backend \in {"mem", "file"}
  /\ strategy \in Strategies
  /\ strategy.MaxCount = 0 => ~strategy.DropOnExceed
  /\ backend = "mem" => strategy.Interval = 1
  /\ faulty \in BOOLEAN
  /\ backend = "mem" => ~faulty
  /\ disk \in InitDisks
  /\ backend = "mem" => disk = Empty
  /\ data = Empty
  /\ memN = Zero32
  /\ inMemBuf = Empty
  /\ inMemSize = Zero32
  /\ fileN = NewFilePersist(disk)
  /\ workers = [w \in 1..MaxWorkers |-> IdleWorker]
  /\ call = NoCall
  /\ admitted = {}
  /\ confVersion = "V311"
  /\ conns = [c \in 1..MaxConn |-> NoConn]
  /\ connections = NoConnections
  /\ Serving
  /\ callers = NoCallers

MemNext ==
  \/ MemStore
  \/ MemLoad
  \/ MemRange
  \/ MemDelete
  \/ MemDestroy

FileNext ==
  \/ FileStore
  \/ FileLoad
  \/ FileRange
  \/ FileDelete
  \/ Worker

Next == MemNext \/ FileNext

Spec == Init /\ [][Next]_vars

\* The in-memory store alone.
MemInit == Init /\ backend = "mem"

MemSpec == MemInit /\ [][MemNext]_vars

(***************************************************************************)
(* memPersist.Store called by several goroutines at once.  The call is not *)
(* atomic: it reads m.n, then calls m.data.LoadOrStore, then adds to m.n   *)
(* or replaces the record; each of the three is one atomic step.           *)
(***************************************************************************)
\* if MaxCount > 0 && atomic.LoadUint32(&m.n) >= MaxCount && DropOnExceed
StoreCheck(t) ==
  /\ backend = "mem"
  /\ callers[t].pc = "idle"
  /\ \E key \in Keys, p \in Packets :
       IF memDropped
       THEN /\ call' = StoreCall(key, p, ErrPacketDroppedByStrategy)
            /\ UNCHANGED callers
       ELSE /\ callers' = [callers EXCEPT ![t] = [pc |-> "checked", key |-> key,
                                                  pkt |-> p, loaded |-> FALSE]]
            /\ UNCHANGED call
  /\ UNCHANGED <<cvars, svars, backend, strategy, faulty, fvars, data, memN, admitted>>

\* _, loaded := m.data.LoadOrStore(key, p)
StoreLoadOrStore(t) ==
  /\ callers[t].pc = "checked"
  /\ callers' = [callers EXCEPT ![t].pc = "stored",
                                ![t].loaded = callers[t].key \in DOMAIN data]
  /\ data' = IF callers[t].key \in DOMAIN data
             THEN data ELSE Put(data, callers[t].key, callers[t].pkt)
  /\ UNCHANGED <<cvars, svars, backend, strategy, faulty, fvars, memN, admitted, call>>

\* atomic.AddUint32(&m.n, 1), or m.data.Store(key, p) with DuplicateReplace; return nil
StoreFinish(t) ==
  /\ callers[t].pc = "stored"
  /\ IF ~callers[t].loaded
     THEN /\ memN' = Add32(memN, One32)
          /\ UNCHANGED data
     ELSE /\ data' = IF strategy.DuplicateReplace
                     THEN Put(data, callers[t].key, callers[t].pkt) ELSE data
          /\ UNCHANGED memN
  /\ admitted' = admitted \cup {callers[t].key}
  /\ call' = StoreCall(callers[t].key, callers[t].pkt, "nil")
  /\ callers' = [callers EXCEPT ![t] = NoCallers[t]]
  /\ UNCHANGED <<cvars, svars, backend, strategy, faulty, fvars>>

MemConcNext == \E t \in 1..MaxCallers :
  \/ StoreCheck(t)
  \/ StoreLoadOrStore(t)
  \/ StoreFinish(t)

MemConcSpec == MemInit /\ [][MemConcNext]_vars

\* The buffered file store with its callers of Store and its flush cycle.
FlushInit == Init /\ backend = "file" /\ strategy.Interval > 0

FlushNext == FileStore \/ Worker

FlushSpec == FlushInit /\ [][FlushNext]_vars

\* The file store, in either write mode, over a directory whose writes can fail.
FaultyInit == Init /\ backend = "file" /\ faulty

FaultySpec == FaultyInit /\ [][FlushNext]_vars

(***************************************************************************)
(* Connections: the listeners hand each accepted connection to handleConn  *)
(* (WebSocket: through handleWS); tcpWorker is the handler that writes the *)
(* registry.                                                               *)
(***************************************************************************)
ProtoVersions == {"V311", "V5"}

\* A client identifier is a string; <<>> is the empty string.
ClientIds == {<<i>> : i \in 1..MaxClient}

\* What the first Decode on an accepted connection yields: a decode error, a
\* packet that is no connect packet, or a connect packet with a client identifier.
FirstPackets ==
  {[type |-> "error", clientId |-> <<>>, keepalive |-> 0],
   [type |-> "other", clientId |-> <<>>, keepalive |-> 0]}
    \cup {[type |-> "connect", clientId |-> id, keepalive |-> k] :
             id \in ClientIds, k \in 0..MaxKeepalive}

\* The packets a client sends on an established connection: a publish packet
\* without or with acknowledgment, an acknowledgment, a ping.
InboundPackets ==
  {[type |-> "publish", qos |-> q, pid |-> i] : q \in {0, 1}, i \in 1..MaxPid}
    \cup {[type |-> "puback", qos |-> 0, pid |-> i] : i \in 1..MaxPid}
    \cup {[type |-> "pingreq", qos |-> 0, pid |-> 0]}

\* newConn(version, conn, connRW, connPkt)
newConn(version, conn, connPkt, decodedWith) ==
  [conn EXCEPT !.phase = "established", !.clientId = connPkt.clientId,
               !.decoded = decodedWith, !.version = version, !.ctxDone = FALSE,
               !.keepalive = connPkt.keepalive]

\* handleConn(conn): the result for the connection.
handleConn(conn, pkt) ==
  IF pkt.type = "error"
  THEN [conn EXCEPT !.phase = "rejected"]
  ELSE IF pkt.type # "connect"
  THEN [conn EXCEPT !.phase = "rejected", !.open = FALSE]
  ELSE [newConn("V311", conn, pkt, confVersion) EXCEPT !.recv = "running", !.send = "running"]

\* handleWS(w, r): defer conn.Close(); handleConn(conn.UnderlyingConn())
handleWS(conn, pkt) == [handleConn(conn, pkt) EXCEPT !.open = FALSE]

\* A listener accepts a connection: initTCPListen and initTCPSListen start
\* handleConn on it, the HTTP servers of initWSListen and initWSSListen call handleWS.
Transport(l) == IF l \in {"tcp", "tcps"} THEN "tcp" ELSE "ws"

Accepting(l) == listeners[l].state = "listening" /\ ~listeners[l].closed

Accept(c) ==
  /\ conns[c].phase = "free"
  /\ \E l \in Listeners :
       /\ Accepting(l)
       /\ conns' = [conns EXCEPT ![c] = [NoConn EXCEPT !.kind = Transport(l), !.open = TRUE,
                                                       !.phase = "handshaking"]]
  /\ UNCHANGED <<pvars, svars, callers, confVersion, connections>>

HandleConn(c) ==
  /\ conns[c].phase = "handshaking"
  /\ \E pkt \in FirstPackets :
       conns' = [conns EXCEPT ![c] = IF conns[c].kind = "ws"
                                     THEN handleWS(conns[c], pkt)
                                     ELSE handleConn(conns[c], pkt)]
  /\ UNCHANGED <<pvars, svars, callers, confVersion, connections>>

\* tcpWorker(conn): decodes with V5 and stores the connImpl under the key "".
TcpWorker(c) ==
  /\ conns[c].phase = "handshaking"
  /\ conns[c].kind = "tcp"
  /\ \E pkt \in FirstPackets :
       IF pkt.type = "error"
       THEN /\ conns' = [conns EXCEPT ![c].phase = "rejected"]
            /\ UNCHANGED connections
       ELSE IF pkt.type # "connect"
       THEN /\ conns' = [conns EXCEPT ![c].phase = "rejected", ![c].open = FALSE]
            /\ UNCHANGED connections
       ELSE /\ conns' = [conns EXCEPT ![c] = newConn("none", conns[c], pkt, "V5")]
            /\ connections' = Put(connections, <<>>, c)
  /\ UNCHANGED <<pvars, svars, callers, confVersion>>

\* The client closes its end of the transport.
PeerClose(c) ==
  /\ conns[c].open
  /\ conns' = [conns EXCEPT ![c].open = FALSE]
  /\ UNCHANGED <<pvars, svars, callers, confVersion, connections>>

\* handleConnRecv: Decode fails, on a closed transport (read error) or on a
\* malformed frame of an open one, and the loop returns.  Once ctx is done the
\* select takes its ctx.Done() case in every turn and Decode is not reached.
RecvReturn(c) ==
  /\ conns[c].recv = "running"
  /\ ~conns[c].ctxDone
  /\ conns' = [conns EXCEPT ![c].recv = "returned"]
  /\ UNCHANGED <<pvars, svars, callers, confVersion, connections>>

\* handleConnRecv, one turn of the loop with a packet decoded: nothing reacts
\* to the packet (switch pkt.(type) {}).
RecvPacket(c) ==
  /\ conns[c].recv = "running"
  /\ ~conns[c].ctxDone
  /\ conns[c].open
  /\ \E pkt \in InboundPackets :
       conns' = [conns EXCEPT ![c].pkt = pkt, ![c].idle = 0]
  /\ UNCHANGED <<pvars, svars, callers, confVersion, connections>>

\* Half a second passes on an established connection without inbound packet.
\* handleKeepalive, the only code with a timer, is started nowhere.
Tick(c) ==
  /\ conns[c].phase = "established"
  /\ conns[c].open
  /\ conns[c].idle < MaxIdle
  /\ conns' = [conns EXCEPT ![c].idle = @ + 1]
  /\ UNCHANGED <<pvars, svars, callers, confVersion, connections>>

ConnNext == \E c \in 1..MaxConn :
  \/ Accept(c)
  \/ HandleConn(c)
  \/ TcpWorker(c)
  \/ PeerClose(c)
  \/ RecvReturn(c)
  \/ RecvPacket(c)
  \/ Tick(c)

\* The owner of a connection calls c.exit(), the cancel function of its context.
CancelConn(c) ==
  /\ conns[c].phase = "established"
  /\ ~conns[c].ctxDone
  /\ conns' = [conns EXCEPT ![c].ctxDone = TRUE]
  /\ UNCHANGED <<pvars, svars, callers, confVersion, connections>>

\* The broker's connections, with the default in-memory store and either
\* configured protocol version.
ConnInit ==
  /\ backend = "mem"
  /\ strategy = [Interval |-> 1, MaxCount |-> 0, DropOnExceed |-> FALSE,
                 DuplicateReplace |-> TRUE]
  /\ faulty = FALSE
  /\ disk = Empty
  /\ data = Empty
  /\ memN = Zero32
  /\ inMemBuf = Empty
  /\ inMemSize = Zero32
  /\ fileN = Zero32
  /\ workers = [w \in 1..MaxWorkers |-> IdleWorker]
  /\ call = NoCall
  /\ admitted = {}
  /\ confVersion \in ProtoVersions
  /\ conns = [c \in 1..MaxConn |-> NoConn]
  /\ connections = NoConnections
  /\ Serving
  /\ callers = NoCallers

ConnSpec == ConnInit /\ [][ConnNext]_vars

\* The lifetime of the connections: handshake, loops, cancellation; the loops
\* are scheduled fairly.
LifetimeNext == \E c \in 1..MaxConn :
  \/ Accept(c)
  \/ HandleConn(c)
  \/ PeerClose(c)
  \/ RecvReturn(c)
  \/ CancelConn(c)

LifetimeFairSpec ==
  /\ ConnInit
  /\ [][LifetimeNext]_vars
  /\ \A c \in 1..MaxConn : WF_vars(HandleConn(c)) /\ WF_vars(RecvReturn(c))

(***************************************************************************)
(* The supervisor: Init starts a goroutine for every listener whose port   *)
(* is > 0 and one that waits for the exit context and calls destroy, then  *)
(* waits for the wait group.                                               *)
(***************************************************************************)
\* The configurations: the listeners whose port is > 0.
Configs == SUBSET Listeners

\* initTCPListen, initTCPSListen, initWSListen, initWSSListen up to serving.
\* Each assigns its socket or server to a new local variable (:=): the package
\* variable of the same name keeps its value.
ListenStart(l) ==
  /\ listeners[l].state = "starting"
  /\ listeners' = [listeners EXCEPT ![l].state = "listening"]
  /\ UNCHANGED <<pvars, cvars, callers, exitDone, services, wg, initPc, exitG>>

\* A listener goroutine returns and runs its deferred wg.Done(): ListenAndServe
\* of initWSListen or initWSSListen returns, because it cannot bind or because
\* the server was shut down.  The accept loops of initTCPListen and
\* initTCPSListen have no exit.
ListenerReturn(l) ==
  /\ l \in {"ws", "wss"}
  /\ \/ listeners[l].state = "starting"
     \/ listeners[l].state = "listening" /\ listeners[l].closed
  /\ listeners' = [listeners EXCEPT ![l].state = "returned"]
  /\ wg' = wg - 1
  /\ UNCHANGED <<pvars, cvars, callers, exitDone, services, initPc, exitG>>

\* The signal handler of imq.go cancels the exit context.
CancelExit ==
  /\ ~exitDone
  /\ exitDone' = TRUE
  /\ UNCHANGED <<pvars, cvars, callers, listeners, services, wg, initPc, exitG>>

\* destroy(timeout): the listeners after it, and the wg.Add(1) it makes.
destroy(ls) ==
  [l \in Listeners |-> IF services[l] # "nil" THEN [ls[l] EXCEPT !.closed = TRUE] ELSE ls[l]]

destroyAdds == Cardinality({l \in {"ws", "wss"} : services[l] # "nil"})

\* A shutdown step that also cancels the lifetime context of every connection.
Destroy_CancelConns ==
  /\ exitDone
  /\ exitG = "waiting"
  /\ listeners' = destroy(listeners)
  /\ wg' = wg + destroyAdds - 1
  /\ exitG' = "done"
  /\ conns' = [c \in 1..MaxConn |->
                 IF conns[c].phase = "established"
                 THEN [conns[c] EXCEPT !.ctxDone = TRUE] ELSE conns[c]]
  /\ UNCHANGED <<pvars, confVersion, connections, callers, exitDone, services, initPc>>

\* The goroutine of Init: <-exit.Done(); destroy(10 * time.Second); wg.Done()
Destroy ==
  /\ exitDone
  /\ exitG = "waiting"
  /\ listeners' = destroy(listeners)
  /\ wg' = wg + destroyAdds - 1
  /\ exitG' = "done"
  /\ UNCHANGED <<pvars, cvars, callers, exitDone, services, initPc>>

\* wg.Wait() returns and Init with it; start returns and the process ends.
InitReturn ==
  /\ initPc = "waiting"
  /\ wg = 0
  /\ initPc' = "returned"
  /\ UNCHANGED <<pvars, cvars, callers, exitDone, listeners, services, wg, exitG>>

\* The persistence store is not in use.
NoStore ==
  /\ backend = "mem"
  /\ strategy = [Interval |-> 1, MaxCount |-> 0, DropOnExceed |-> FALSE,
                 DuplicateReplace |-> TRUE]
  /\ faulty = FALSE
  /\ disk = Empty
  /\ data = Empty
  /\ memN = Zero32
  /\ inMemBuf = Empty
  /\ inMemSize = Zero32
  /\ fileN = Zero32
  /\ workers = [w \in 1..MaxWorkers |-> IdleWorker]
  /\ call = NoCall
  /\ admitted = {}
  /\ callers = NoCallers

\* Init, blocked in wg.Wait() with its goroutines started.
BrokerInit ==
  /\ NoStore
  /\ confVersion = "V5"
  /\ conns = [c \in 1..MaxConn |-> NoConn]
  /\ connections = NoConnections
  /\ exitDone = FALSE
  /\ \E enabled \in Configs :
       /\ listeners = [l \in Listeners |-> Listener(IF l \in enabled THEN "starting" ELSE "off")]
       /\ wg = Cardinality(enabled) + 1
  /\ services = [l \in Listeners |-> "nil"]
  /\ initPc = "waiting"
  /\ exitG = "waiting"

SupervisorNext ==
  \/ CancelExit
  \/ Destroy
  \/ InitReturn
  \/ \E l \in Listeners : ListenStart(l)
  \/ \E l \in Listeners : ListenerReturn(l)

BrokerNext ==
  \/ SupervisorNext
  \/ \E c \in 1..MaxConn : Accept(c)
  \/ \E c \in 1..MaxConn : HandleConn(c)
  \/ \E c \in 1..MaxConn : PeerClose(c)
  \/ \E c \in 1..MaxConn : RecvReturn(c)

BrokerSpec == BrokerInit /\ [][BrokerNext]_vars

\* The supervisor alone, its goroutines scheduled fairly.
SupervisorFairSpec ==
  /\ BrokerInit
  /\ [][SupervisorNext]_vars
  /\ WF_vars(Destroy)
  /\ WF_vars(InitReturn)
  /\ \A l \in Listeners : WF_vars(ListenStart(l)) /\ WF_vars(ListenerReturn(l))

(***************************************************************************)
(* Vocabulary of the properties.                                           *)
(***************************************************************************)
Load(key) == IF backend = "mem" THEN memPersistLoad(key) ELSE filePersistLoad(key)

Found(p) == [pkt |-> p, found |-> TRUE]

\* The step is a call Store(key, p) of the backend in use.
StoreStep(key, p) ==
  \/ backend = "mem" /\ memPersistStore(key, p)
  \/ backend = "file" /\ \E ok \in WriteOutcomes : filePersistStore(key, p, ok)

\* The step is a call Delete(key) of the backend in use.
DeleteStep(key) ==
  \/ backend = "mem" /\ memPersistDelete(key)
  \/ backend = "file" /\ filePersistDelete(key) /\ UNCHANGED <<inMemBuf, workers>>

\* The step is a call of Range or Load: it records its result and changes nothing else.
QueryStep(op) ==
  /\ call'.op = op
  /\ UNCHANGED <<data, memN, fvars>>

RecordFiles == {name \in DOMAIN disk : HasSuffix(name, fileSuffix)}

\* The keys of the records the store holds: the map's keys, or the record
\* files of the directory.
StoredKeys ==
  IF backend = "mem" THEN DOMAIN data
  ELSE {TrimSuffix(name, fileSuffix) : name \in RecordFiles}

\* The number of records held: in memory, or on disk plus staged.
RecordCount ==
  IF backend = "mem" THEN Cardinality(DOMAIN data)
  ELSE Cardinality(RecordFiles) + Cardinality(DOMAIN inMemBuf)

Limited == strategy.MaxCount > 0 /\ strategy.DropOnExceed

BelowCapacity == strategy.MaxCount = 0 \/ RecordCount < strategy.MaxCount

\* The store persists per call: the in-memory store, or the file store with Interval 0.
PerCall == backend = "mem" \/ strategy.Interval = 0

Buffered == backend = "file" /\ strategy.Interval > 0

(***************************************************************************)
(* C1. Store/Load round trip (in-memory store, file store with Interval 0, *)
(* no write failure): a Store(K, P) on a store that holds fewer records    *)
(* than its capacity and no record for K returns nil, and the Load(K)      *)
(* that follows returns P.                                                 *)
(***************************************************************************)
C1_StoreLoadRoundTrip ==
  [][\A key \in Keys, p \in Packets :
       (PerCall /\ ~faulty /\ BelowCapacity /\ ~Load(key).found /\ StoreStep(key, p))
         => (call'.ret = "nil" /\ Load(key)' = Found(p))]_vars

(***************************************************************************)
(* C2. Delete is idempotent on every backend: Delete(K) returns nil,       *)
(* whether or not K has a record; after it Load(K) finds nothing; and a    *)
(* Delete(K) of a key without record leaves the records as they are.       *)
(***************************************************************************)
C2_DeleteIdempotent ==
  [][\A key \in Keys :
       DeleteStep(key)
         => /\ call'.ret = "nil"
            /\ ~Load(key)'.found
            /\ ~Load(key).found => (data' = data /\ disk' = disk)]_vars

C4_FileOverflow ==
  [][\A key \in Keys, p \in Packets :
       (/\ backend = "file"
        /\ Limited
        /\ RecordCount = strategy.MaxCount
        /\ ~exists(key)
        /\ key \notin DOMAIN inMemBuf
        /\ StoreStep(key, p))
         => /\ call'.ret = ErrPacketDroppedByStrategy
            /\ disk' = disk
            /\ inMemBuf' = inMemBuf]_vars

(***************************************************************************)
(* C5. Duplicate policy (in-memory store, file store with Interval 0, no   *)
(* write failure): Store(K, P1) directly followed by Store(K, P2), P1 #    *)
(* P2, on a store that holds fewer records than its capacity: both return  *)
(* nil, and Load(K) then returns P2 with DuplicateReplace, P1 without.     *)
(***************************************************************************)
C5_DuplicatePolicy ==
  [][\A key \in Keys, p1, p2 \in Packets :
       (/\ PerCall /\ ~faulty
        /\ p1 # p2
        /\ call = StoreCall(key, p1, "nil")
        /\ Load(key) = Found(p1)
        /\ BelowCapacity
        /\ StoreStep(key, p2))
         => /\ call'.ret = "nil"
            /\ Load(key)' = Found(IF strategy.DuplicateReplace THEN p2 ELSE p1)]_vars

(***************************************************************************)
(* C6. Range is complete on every backend: a Range whose visitor always    *)
(* returns true invokes it exactly once for each record the store holds    *)
(* (file store: each record file of the directory) and for no other key.   *)
(***************************************************************************)
C6_RangeComplete ==
  [][(QueryStep("Range") /\ \A i \in DOMAIN call'.rets : call'.rets[i])
       => /\ Len(call'.visited) = Cardinality(StoredKeys)
          /\ {call'.visited[i] : i \in DOMAIN call'.visited} = StoredKeys]_vars

C8_FlushedIsVisible ==
  \A key \in Keys, p \in Packets :
    (/\ Buffered /\ ~faulty /\ strategy.DuplicateReplace
     /\ call = StoreCall(key, p, "nil")
     /\ key \notin DOMAIN inMemBuf)
      => /\ Load(key) = Found(p)
         /\ key \in {TrimSuffix(name, fileSuffix) : name \in RangeFiles}

(***************************************************************************)
(* C9. Buffered file store, read before flush, as claimed: a Store(K, P)   *)
(* for a key without file returns nil and writes no file, and a Load(K)    *)
(* of a key without file finds nothing, staged or not.                     *)
(***************************************************************************)
C9_ReadBeforeFlush ==
  [][/\ \A key \in Keys, p \in Packets :
          (Buffered /\ ~exists(key) /\ StoreStep(key, p))
            => (call'.ret = "nil" /\ disk' = disk /\ ~Load(key)'.found)
     /\ \A key \in Keys :
          (Buffered /\ ~exists(key) /\ QueryStep("Load") /\ call'.key = key)
            => ~call'.found]_vars

(***************************************************************************)
(* C9, amended: the same, for a Store that the overflow policy does not    *)
(* drop: it returns nil, stages P under K and writes no file; a Load(K)    *)
(* of a key without file finds nothing, staged or not.                     *)
(***************************************************************************)
C9_ReadBeforeFlushAdmitted ==
  [][/\ \A key \in Keys, p \in Packets :
          (Buffered /\ ~exists(key) /\ ~fileDropped /\ StoreStep(key, p))
            => /\ call'.ret = "nil"
               /\ disk' = disk
               /\ key \in DOMAIN inMemBuf' /\ inMemBuf'[key] = p
               /\ ~Load(key)'.found
     /\ \A key \in Keys :
          (Buffered /\ ~exists(key) /\ QueryStep("Load") /\ call'.key = key)
            => ~call'.found]_vars

C9_Witness ==
  /\ Buffered
  /\ call.op = "Load"
  /\ call.key \in DOMAIN inMemBuf
  /\ ~exists(call.key)
  /\ ~call.found

(***************************************************************************)
(* C10. Connection identity uniqueness: every connection that completed a  *)
(* valid handshake and is still open is registered in the registry under   *)
(* its client identifier, and no two open connections carry the same       *)
(* client identifier (a second handshake closes the first connection).     *)
(***************************************************************************)
Live(c) == conns[c].phase = "established" /\ conns[c].open

C10_ConnectionIdentity ==
  /\ \A c \in 1..MaxConn :
       Live(c) => /\ conns[c].clientId \in DOMAIN connections
                  /\ connections[conns[c].clientId] = c
  /\ \A c, d \in 1..MaxConn :
       (Live(c) /\ Live(d) /\ conns[c].clientId = conns[d].clientId) => c = d

(***************************************************************************)
(* C11. Handshake failure: a connection whose first packet failed to       *)
(* decode or was no connect packet is closed: its transport is closed and  *)
(* neither its receive loop nor its send loop was started, on TCP and on   *)
(* WebSocket connections alike.                                            *)
(***************************************************************************)
C11_HandshakeFailureCloses ==
  \A c \in 1..MaxConn :
    conns[c].phase = "rejected"
      => /\ ~conns[c].open
         /\ conns[c].recv = "none"
         /\ conns[c].send = "none"

(***************************************************************************)
(* C12. Keepalive timeout: an established connection with keepalive        *)
(* interval K > 0 seconds that has received no packet for more than 1.5 K  *)
(* seconds (3 K half seconds) is draining: its lifetime context is         *)
(* cancelled.                                                              *)
(***************************************************************************)
Draining(c) == conns[c].ctxDone

C12_KeepaliveTimeout ==
  \A c \in 1..MaxConn :
    (/\ conns[c].phase = "established"
     /\ conns[c].keepalive > 0
     /\ conns[c].idle > 3 * conns[c].keepalive)
      => Draining(c)

(***************************************************************************)
(* C13. Acknowledgment tracking: when the last packet an established       *)
(* connection of client c received is a publish packet that requires       *)
(* acknowledgment, with packet identifier i, the store holds a record      *)
(* keyed by c and i; when it is the matching acknowledgment, the store     *)
(* holds no such record.                                                   *)
(***************************************************************************)
AckKey(c) == conns[c].clientId \o <<conns[c].pkt.pid>>

C13_AckTracking ==
  \A c \in 1..MaxConn :
    conns[c].phase = "established"
      => /\ (conns[c].pkt.type = "publish" /\ conns[c].pkt.qos > 0)
              => AckKey(c) \in StoredKeys
         /\ conns[c].pkt.type = "puback" => AckKey(c) \notin StoredKeys

(***************************************************************************)
(* C14. Shutdown stops admission: the shutdown step closes the socket or   *)
(* server of every listener that is serving, and once it has run no        *)
(* listener accepts a connection and hands it to handleConn.               *)
(***************************************************************************)
C14_ShutdownStopsAdmission ==
  [][/\ Destroy => \A l \in Listeners : listeners[l].state = "listening" => ~Accepting(l)'
     /\ exitG = "done" => \A c \in 1..MaxConn : ~Accept(c)]_vars

(***************************************************************************)
(* C15. Shutdown terminates: for every configuration of enabled listeners, *)
(* after the exit context is cancelled Init eventually returns, with the   *)
(* wait-group counter at zero.                                             *)
(***************************************************************************)
C15_ShutdownTerminates == exitDone ~> (initPc = "returned" /\ wg = 0)

(***************************************************************************)
(* C16. Shutdown leaves established connections alone: the cancellation of *)
(* the exit context and the shutdown step change nothing of an established *)
(* connection (its lifetime context, its transport, its loops), and Init   *)
(* does not return, ending the process, while a connection is established. *)
(***************************************************************************)
C16_ShutdownLeavesConnections ==
  [][/\ (CancelExit \/ Destroy)
          => \A c \in 1..MaxConn :
               conns[c].phase = "established" => conns'[c] = conns[c]
     /\ (\E c \in 1..MaxConn : conns[c].phase = "established")
          => initPc' = "waiting"]_vars

C16_Witness ==
  /\ exitG = "done"
  /\ \E c \in 1..MaxConn :
       /\ conns[c].phase = "established"
       /\ conns[c].open
       /\ ~conns[c].ctxDone
       /\ conns[c].recv = "running"
       /\ conns[c].send = "running"

(***************************************************************************)
(* C17. In-memory capacity under concurrency: with MaxCount = n > 0 and    *)
(* DropOnExceed, under every interleaving of concurrent Store calls the    *)
(* in-memory store never holds more than n records.                        *)
(***************************************************************************)
C17_MemCapacity ==
  (backend = "mem" /\ Limited) => Cardinality(DOMAIN data) <= strategy.MaxCount

(***************************************************************************)
(* C18. In-memory live count: after any sequence of Store, Delete and      *)
(* Destroy calls the counter of the max-count check equals the number of   *)
(* records in the map.                                                     *)
(***************************************************************************)
C18_MemLiveCount ==
  backend = "mem" => memN = U32(Cardinality(DOMAIN data))

(***************************************************************************)
(* C19. File store counters: in either write mode the sum n + inMemSize    *)
(* of the admission check equals the number of record files on disk plus   *)
(* the number of staged records, and no counter has wrapped below zero.    *)
(***************************************************************************)
C19_FileCounters ==
  backend = "file"
    => /\ Add32(fileN, inMemSize) = U32(RecordCount)
       /\ fileN.hi = 0
       /\ inMemSize.hi = 0

(***************************************************************************)
(* C20. Buffered file store, no lost write (no write failure): under every  *)
(* interleaving of Store calls with the flush cycle, a record leaves the   *)
(* staging map only when the file of its key holds that same payload.      *)
(***************************************************************************)
C20_NoLostWrite ==
  [][(Buffered /\ ~faulty)
       => \A key \in DOMAIN inMemBuf :
            key \notin DOMAIN inMemBuf' => Load(key)' = Found(inMemBuf[key])]_vars

(***************************************************************************)
(* C21. Flush task termination, safety part: the flush task never          *)
(* reschedules itself while the staging map is empty.                      *)
(***************************************************************************)
C21_NoRescheduleWhenEmpty ==
  [][\A w \in 1..MaxWorkers :
       (WorkerCheck(w) /\ DOMAIN inMemBuf = {}) => workers'[w].pc = "idle"]_vars

(***************************************************************************)
(* C22. Single flush task: at most one flush task of the store is active   *)
(* at any time.                                                            *)
(***************************************************************************)
C22_SingleFlushTask ==
  Cardinality({w \in 1..MaxWorkers : workers[w].pc # "idle"}) <= 1

(***************************************************************************)
(* C23. Buffered duplicate policy: with Interval > 0 and DuplicateReplace  *)
(* false, a Store(K, P2) for a key that is staged with P1 and not yet on   *)
(* disk leaves the staging map (K with P1) and the staged-record count as  *)
(* they are.                                                               *)
(***************************************************************************)
C23_BufferedDuplicateKept ==
  [][\A key \in Keys, p2 \in Packets :
       (/\ Buffered /\ ~strategy.DuplicateReplace
        /\ key \in DOMAIN inMemBuf
        /\ ~exists(key)
        /\ StoreStep(key, p2))
         => (inMemBuf' = inMemBuf /\ inMemSize' = inMemSize)]_vars

(***************************************************************************)
(* C24. Persistence failure propagation in the file store: with Interval 0 *)
(* a Store whose write fails returns the error and leaves the counters     *)
(* unchanged; with Interval > 0 a record leaves the staging map only when  *)
(* a file of its key was written.                                          *)
(***************************************************************************)
C24_WriteFailurePropagates ==
  [][/\ \A key \in Keys, p \in Packets :
          (/\ backend = "file" /\ strategy.Interval = 0
           /\ ~fileDropped
           /\ ~exists(key) \/ strategy.DuplicateReplace
           /\ filePersistStore(key, p, FALSE))
            => (call'.ret = "error" /\ fileN' = fileN /\ inMemSize' = inMemSize)
     /\ \A key \in DOMAIN inMemBuf :
          (Buffered /\ key \notin DOMAIN inMemBuf') => exists(key)']_vars

(***************************************************************************)
(* C25. Receive-loop failure drains the connection: when the receive loop  *)
(* of an established connection has returned on a decode failure or a read *)
(* error, the connection's lifetime context is cancelled, its transport is *)
(* closed and its send loop has stopped.                                   *)
(***************************************************************************)
C25_RecvFailureDrains ==
  \A c \in 1..MaxConn :
    conns[c].recv = "returned"
      => /\ conns[c].ctxDone
         /\ ~conns[c].open
         /\ conns[c].send # "running"

(***************************************************************************)
(* C26. Cancellation stops both loops: once the lifetime context of a      *)
(* connection is cancelled, eventually neither its receive loop nor its    *)
(* send loop is running and its transport is closed.                       *)
(***************************************************************************)
C26_CancellationStopsLoops ==
  \A c \in 1..MaxConn :
    conns[c].ctxDone
      ~> (conns[c].recv # "running" /\ conns[c].send # "running" /\ ~conns[c].open)

(***************************************************************************)
(* C27. Protocol version consistency: the version recorded in a connection *)
(* established by handleConn, with which its receive loop decodes the      *)
(* later packets, is the version its connect packet was decoded with.      *)
(***************************************************************************)
C27_VersionConsistent ==
  \A c \in 1..MaxConn :
    (conns[c].phase = "established" /\ conns[c].recv # "none")
      => conns[c].version = conns[c].decoded

(***************************************************************************)
(* C28. Transport-agnostic lifetime: the handshake that establishes a      *)
(* connection leaves its transport open, on WebSocket as on TCP.           *)
(***************************************************************************)
C28_HandshakeKeepsTransport ==
  [][\A c \in 1..MaxConn :
       (/\ conns[c].phase = "handshaking"
        /\ conns[c].open
        /\ conns'[c].phase = "established")
         => conns'[c].open]_vars

====
